---- MODULE Spec2Model ----
(***************************************************************************)
(* A model of gdb/minsyms.c: the collection buffer of minimal symbols      *)
(* (msym_bunch, msym_bunch_index, msym_count), install_minimal_symbols     *)
(* (copy, qsort by address, compaction, demangling pass), and the lookups  *)
(* by name, by pc and through shared-library trampolines.                  *)
(*                                                                         *)
(* A minimal symbol is a record [name, address, type, language]; the       *)
(* section and info fields are written by the code and never read by it,   *)
(* so they are left out.  A name is a sequence of characters.  A table is  *)
(* a sequence of symbols: its length is objfile->minimal_symbol_count, the *)
(* terminating null symbol is not stored, and the empty sequence stands    *)
(* for objfile->msymbols == NULL.  C indices are kept 0-based (see At).    *)
(***************************************************************************)
EXTENDS Integers, Sequences, FiniteSets, TLC

(***************************************************************************)
(* Bounds of the model.                                                    *)
(***************************************************************************)
\* Cap on msym_count: records recorded in one collection.
MaxCount == 3
\* Cap on the length of an installed table (guard of Install).
MaxTable == 3
\* Greatest address of a drawn table; pcs range over 0..MaxAddr+1.
MaxAddr == 3
\* Greatest length of the table drawn for the single-objfile lookups.
MaxLen == 4
\* Symbols the tables of the two objfiles drawn for a lookup hold together.
MaxSyms == 3
\* Greatest address of a table drawn for the two-objfile lookups.
MaxModAddr == 2

(***************************************************************************)
(* Program constants.                                                      *)
(***************************************************************************)
\* Slots of a bunch.  The source has #define BUNCH_SIZE 127; the model
\* takes a small size, so that a collection of MaxCount records spans more
\* than one bunch.
BUNCH_SIZE == 2

NULL == <<>>
NUL == ""

\* enum minimal_symbol_type, as the code names its members.
FileTypes == {"mst_file_text", "mst_file_data", "mst_file_bss"}

MkSym(n, a, t, l) == [name |-> n, address |-> a, type |-> t, language |-> l]

\* Characters of the names used.
Str_a == <<"a">>
Str_ua == <<"_", "a">>
Str_b == <<"b">>
\* The literal "__gnu_compiled" of prim_record_minimal_symbol_and_info.
Str_gnu_compiled ==
  <<"_", "_", "g", "n", "u", "_", "c", "o", "m", "p", "i", "l", "e", "d">>
\* GCC_COMPILED_FLAG_SYMBOL and GCC2_COMPILED_FLAG_SYMBOL.
GCC_COMPILED_FLAG_SYMBOL ==
  <<"g", "c", "c", "_", "c", "o", "m", "p", "i", "l", "e", "d", ".">>
GCC2_COMPILED_FLAG_SYMBOL ==
  <<"g", "c", "c", "2", "_", "c", "o", "m", "p", "i", "l", "e", "d", ".">>

VARIABLES
  object_files,      \* the registry: objfile ids in list order
  msymbols,          \* objfile id -> its installed table
  msym_bunch,        \* the chain of bunches, current bunch first; a bunch
                     \* is the sequence of its slots written so far
  msym_bunch_index,  \* number of slots filled in the current bunch
  msym_count,        \* records recorded so far
  proc,              \* "running", "crashed" or "corrupt"
  last               \* the last call: its arguments and what it returned

vars == <<object_files, msymbols, msym_bunch, msym_bunch_index, msym_count,
          proc, last>>

Objfiles == {object_files[k] : k \in 1..Len(object_files)}

\* 0-based indexing of a table, as msymbol[i] in the code.
At(tab, i) == tab[i + 1]

Call(op) ==
  [op |-> op, objfile |-> 0, old |-> <<>>, name |-> <<>>, pc |-> 0,
   stored |-> FALSE, res |-> NULL, target |-> 0, demangled |-> {},
   lo |-> 0, hi |-> 0]

(***************************************************************************)
(* bfd_get_symbol_leading_char of the objfile's bfd: '_' for objfile 1 (an *)
(* a.out style target), 0 for the others.                                  *)
(***************************************************************************)
get_symbol_leading_char(o) == IF o = 1 THEN "_" ELSE NUL

\* name[0]: the first character, NUL for the empty string.
FirstChar(name) == IF name = <<>> THEN NUL ELSE Head(name)

\* STREQN (s, t, n): the first n characters agree (t has n characters).
STREQN(s, t, n) == Len(s) >= n /\ SubSeq(s, 1, n) = t

(***************************************************************************)
(* The records the object-file reader hands to                             *)
(* prim_record_minimal_symbol_and_info: <<name, address, ms_type>>.        *)
(***************************************************************************)
AppendInputs ==
  { <<Str_a, 1, "mst_unknown">>,
    <<Str_a, 1, "mst_text">>,
    <<Str_b, 1, "mst_text">>,
    <<Str_ua, 2, "mst_text">>,
    <<Str_b, 3, "mst_abs">>,
    <<GCC2_COMPILED_FLAG_SYMBOL, 2, "mst_file_text">> }

(***************************************************************************)
(* init_minimal_symbol_collection                                          *)
(***************************************************************************)
init_minimal_symbol_collection ==
  /\ proc = "running"
  /\ msym_count' = 0
  /\ msym_bunch' = NULL
  /\ msym_bunch_index' = BUNCH_SIZE
  /\ last' = Call("init")
  /\ UNCHANGED <<object_files, msymbols, proc>>

(***************************************************************************)
(* prim_record_minimal_symbol_and_info                                     *)
(***************************************************************************)
\* The filter on mst_file_text records: TRUE when the record is dropped.
IsCompilerMarker(name, ms_type, o) ==
  /\ ms_type = "mst_file_text"
  /\ \/ /\ FirstChar(name) = "g"
        /\ \/ name = GCC_COMPILED_FLAG_SYMBOL
           \/ name = GCC2_COMPILED_FLAG_SYMBOL
     \/ LET tempstring == IF FirstChar(name) = get_symbol_leading_char(o)
                          THEN Tail(name) ELSE name
        IN  STREQN(tempstring, Str_gnu_compiled, 14)

\* The chain after the record is stored; the record is stored with
\* language_unknown (SYMBOL_INIT_LANGUAGE_SPECIFIC).
StoreInBunch(chain, index, sym) ==
  IF index = BUNCH_SIZE
  THEN <<<<sym>>>> \o chain
  ELSE [chain EXCEPT ![1] = SubSeq(chain[1], 1, index) \o <<sym>>]

prim_record_minimal_symbol_and_info(name, address, ms_type, o) ==
  /\ proc = "running"
  /\ msym_count < MaxCount
  /\ IF IsCompilerMarker(name, ms_type, o)
     THEN /\ last' = [Call("append") EXCEPT !.objfile = o, !.name = name]
          /\ UNCHANGED <<msym_bunch, msym_bunch_index, msym_count, proc>>
     ELSE IF msym_bunch_index # BUNCH_SIZE /\ msym_bunch = NULL
     THEN \* &msym_bunch->contents[msym_bunch_index] through a NULL pointer
          /\ proc' = "crashed"
          /\ last' = [Call("append") EXCEPT !.objfile = o, !.name = name]
          /\ UNCHANGED <<msym_bunch, msym_bunch_index, msym_count>>
     ELSE /\ msym_bunch' =
               StoreInBunch(msym_bunch, msym_bunch_index,
                            MkSym(name, address, ms_type, "language_unknown"))
          /\ msym_bunch_index' =
               (IF msym_bunch_index = BUNCH_SIZE THEN 0 ELSE msym_bunch_index) + 1
          /\ msym_count' = msym_count + 1
          /\ last' = [Call("append") EXCEPT !.objfile = o, !.name = name,
                                            !.stored = TRUE]
          /\ UNCHANGED proc
  /\ UNCHANGED <<object_files, msymbols>>

(***************************************************************************)
(* discard_minimal_symbols: frees the chain and nothing else.              *)
(***************************************************************************)
discard_minimal_symbols ==
  /\ proc = "running"
  /\ msym_bunch' = NULL
  /\ last' = Call("discard")
  /\ UNCHANGED <<object_files, msymbols, msym_bunch_index, msym_count, proc>>

\* The table is in ascending address order.
IsSorted(tab) ==
  \A i \in 1..Len(tab) - 1 : tab[i].address <= tab[i + 1].address

(***************************************************************************)
(* compare_minimal_symbols and qsort.  qsort leaves records that compare   *)
(* equal in an unspecified order: qsort(s) is the set of every arrangement *)
(* of s it may return.                                                     *)
(***************************************************************************)
\* Mutant: the branch for a greater first address is missing.
compare_minimal_symbols_NoGreater(fn1, fn2) ==
  IF fn1.address < fn2.address THEN -1 ELSE 0

compare_minimal_symbols(fn1, fn2) ==
  IF fn1.address < fn2.address THEN -1
  ELSE IF fn1.address > fn2.address THEN 1
  ELSE 0

RECURSIVE Arrange(_, _)
Arrange(s, S) ==
  IF S = {} THEN {<<>>}
  ELSE UNION { { <<s[i]>> \o t : t \in Arrange(s, S \ {i}) } :
               i \in { i \in S :
                       \A j \in S : compare_minimal_symbols(s[i], s[j]) <= 0 } }

qsort(s) == Arrange(s, 1..Len(s))

(***************************************************************************)
(* compact_minimal_symbols: the walk of copyfrom and copyto over the       *)
(* array.  The entry kept of a duplicate pair is the later one, copyfrom+1;*)
(* it takes the earlier entry's type when its own is mst_unknown.          *)
(***************************************************************************)
SetAt(ms, i, sym) == [ms EXCEPT ![i + 1] = sym]

\* Mutant: strcmp's result taken as "equal" when it is non-zero.
IsDuplicate_Strcmp(x, y) == x.address = y.address /\ x.name # y.name

IsDuplicate(x, y) == x.address = y.address /\ x.name = y.name

\* Mutant: the type of the entry compacted out is not carried over.
MergeType_Dropped(ms, copyfrom) == ms

MergeType(ms, copyfrom) ==
  IF At(ms, copyfrom + 1).type = "mst_unknown"
  THEN SetAt(ms, copyfrom + 1,
             [At(ms, copyfrom + 1) EXCEPT !.type = At(ms, copyfrom).type])
  ELSE ms

RECURSIVE CompactLoop(_, _, _)
CompactLoop(ms, copyfrom, copyto) ==
  IF copyfrom < Len(ms) - 1
  THEN IF IsDuplicate(At(ms, copyfrom), At(ms, copyfrom + 1))
       THEN CompactLoop(MergeType(ms, copyfrom), copyfrom + 1, copyto)
       ELSE CompactLoop(SetAt(ms, copyto, At(ms, copyfrom)),
                        copyfrom + 1, copyto + 1)
  ELSE SubSeq(SetAt(ms, copyto, At(ms, copyfrom)), 1, copyto + 1)

compact_minimal_symbols(ms) ==
  IF Len(ms) > 0 THEN CompactLoop(ms, 0, 0) ELSE ms

(***************************************************************************)
(* The demangling pass.  cplus_demangle is the external demangler: here    *)
(* the name "b" demangles and no other name does.                          *)
(***************************************************************************)
cplus_demangle(name) == IF name = Str_b THEN <<"B">> ELSE NULL

SYMBOL_INIT_DEMANGLED_NAME(sym) ==
  IF sym.language = "language_auto"
  THEN IF cplus_demangle(sym.name) # NULL
       THEN [sym EXCEPT !.language = "language_cplus"]
       ELSE [sym EXCEPT !.language = "language_unknown"]
  ELSE sym

DemanglePass(ms) == [i \in 1..Len(ms) |-> SYMBOL_INIT_DEMANGLED_NAME(ms[i])]

\* The symbols, as <<address, name>>, that the pass hands to cplus_demangle:
\* those tagged language_auto.
DemangleCalls(ms) ==
  { <<ms[i].address, ms[i].name>> :
      i \in { i \in 1..Len(ms) : ms[i].language = "language_auto" } }

(***************************************************************************)
(* install_minimal_symbols                                                 *)
(***************************************************************************)
\* Slots the copy loop reads from the k-th bunch of the chain: the current
\* msym_bunch_index for the first, BUNCH_SIZE for every later one.
CopyCount(k) == IF k = 1 THEN msym_bunch_index ELSE BUNCH_SIZE

\* The loop reads a slot that was never written: contents[bindex] of a
\* bunch filled less far than the loop runs.
ReadsUnwritten ==
  \E k \in 1..Len(msym_bunch) : CopyCount(k) > Len(msym_bunch[k])

\* Mutant: only the current bunch is copied, not the chain behind it.
CopyBunches_HeadOnly(k) ==
  IF k > Len(msym_bunch) THEN <<>>
  ELSE SubSeq(msym_bunch[k], 1, CopyCount(k))

RECURSIVE CopyBunches(_)
CopyBunches(k) ==
  IF k > Len(msym_bunch) THEN <<>>
  ELSE SubSeq(msym_bunch[k], 1, CopyCount(k)) \o CopyBunches(k + 1)

\* msymbols[mcount] = bunch->contents[bindex], language_auto, leading
\* character stripped.
InstallCopy(sym, leading_char) ==
  [sym EXCEPT !.language = "language_auto",
              !.name = IF FirstChar(@) = leading_char THEN Tail(@) ELSE @]

\* What the objfile's table may hold once a run of the copy loop has read
\* unwritten slots and written past the alloc_count entries allocated.
GarbageSyms ==
  { MkSym(r[1], r[2], r[3], "language_unknown") : r \in AppendInputs }
GarbageTables ==
  { <<x>> : x \in GarbageSyms } \cup { <<x, y>> : x, y \in GarbageSyms }

install_minimal_symbols(o) ==
  /\ proc = "running"
  /\ msym_count + Len(msymbols[o]) <= MaxTable
  /\ IF msym_count > 0
     THEN IF ReadsUnwritten
          THEN /\ last' = [Call("install") EXCEPT !.objfile = o,
                                                  !.old = msymbols[o]]
               /\ \/ /\ proc' = "crashed"
                     /\ UNCHANGED <<msymbols, msym_bunch_index>>
                  \/ /\ proc' = "corrupt"
                     /\ \E t \in GarbageTables :
                          msymbols' = [msymbols EXCEPT ![o] = t]
                     /\ msym_bunch_index' = BUNCH_SIZE
          ELSE LET leading_char == get_symbol_leading_char(o)
                   copied == CopyBunches(1)
                   all == msymbols[o] \o
                          [i \in 1..Len(copied) |->
                             InstallCopy(copied[i], leading_char)]
               IN  /\ \E sorted \in qsort(all) :
                        LET compacted == compact_minimal_symbols(sorted)
                        IN  /\ msymbols' =
                                 [msymbols EXCEPT ![o] = DemanglePass(compacted)]
                            /\ last' =
                                 [Call("install") EXCEPT
                                    !.objfile = o, !.old = msymbols[o],
                                    !.demangled = DemangleCalls(compacted)]
                   /\ msym_bunch_index' =
                        IF msym_bunch = NULL THEN msym_bunch_index
                        ELSE BUNCH_SIZE
                   /\ UNCHANGED proc
     ELSE /\ last' = [Call("install") EXCEPT !.objfile = o, !.old = msymbols[o]]
          /\ UNCHANGED <<msymbols, msym_bunch_index, proc>>
  /\ UNCHANGED <<object_files, msym_bunch, msym_count>>

(***************************************************************************)
(* msymbols_sort                                                           *)
(***************************************************************************)
msymbols_sort(o) ==
  /\ proc = "running"
  /\ \E sorted \in qsort(msymbols[o]) :
       msymbols' = [msymbols EXCEPT ![o] = sorted]
  /\ last' = [Call("sort") EXCEPT !.objfile = o]
  /\ UNCHANGED <<object_files, msym_bunch, msym_bunch_index, msym_count, proc>>

(***************************************************************************)
(* Pointers to minimal symbols: <<objfile, index>>, or NULL.               *)
(***************************************************************************)
Ptr(o, i) == <<o, i>>
Sym(p) == At(msymbols[p[1]], p[2])
SYMBOL_VALUE_ADDRESS(p) == Sym(p).address
MSYMBOL_TYPE(p) == Sym(p).type
SYMBOL_NAME(p) == Sym(p).name

(***************************************************************************)
(* lookup_minimal_symbol_by_pc                                             *)
(***************************************************************************)
\* Mutant: the test lo == new is missing.
BSearchStep_NoLoTest(tab, pc, lo, hi) ==
  LET new == (lo + hi) \div 2
  IN  IF At(tab, new).address >= pc
      THEN <<lo, new>>
      ELSE <<new, hi>>

\* One pass of the body of the binary-search loop: the new <<lo, hi>>.
BSearchStep(tab, pc, lo, hi) ==
  LET new == (lo + hi) \div 2
  IN  IF At(tab, new).address >= pc \/ lo = new
      THEN <<lo, new>>
      ELSE <<new, hi>>

\* while (SYMBOL_VALUE_ADDRESS (&msymbol[hi]) > pc) ...: the final hi.
RECURSIVE BSearch(_, _, _, _)
BSearch(tab, pc, lo, hi) ==
  IF At(tab, hi).address > pc
  THEN LET s == BSearchStep(tab, pc, lo, hi)
       IN  BSearch(tab, pc, s[1], s[2])
  ELSE hi

\* Mutant: the walk back over mst_abs symbols is missing.
SkipAbs_None(tab, hi) == hi

\* while (hi >= 0 && msymbol[hi].type == mst_abs) --hi;
RECURSIVE SkipAbs(_, _)
SkipAbs(tab, hi) ==
  IF hi >= 0 /\ At(tab, hi).type = "mst_abs"
  THEN SkipAbs(tab, hi - 1)
  ELSE hi

\* Mutant: pc > address of the first symbol, where the code has >=.
PcCandidate_Strict(tab, pc) ==
  IF tab # NULL /\ pc > At(tab, 0).address
  THEN SkipAbs(tab, BSearch(tab, pc, 0, Len(tab) - 1))
  ELSE -1

\* The index this objfile's table offers for pc, or -1 when it offers none.
PcCandidate(tab, pc) ==
  IF tab # NULL /\ pc >= At(tab, 0).address
  THEN SkipAbs(tab, BSearch(tab, pc, 0, Len(tab) - 1))
  ELSE -1

\* Mutant: <= where the code has <, so that a later objfile wins a tie.
BetterThanBest_OrEqual(best, cand) ==
  best = NULL \/ SYMBOL_VALUE_ADDRESS(best) <= SYMBOL_VALUE_ADDRESS(cand)

\* best_symbol == NULL || address (best_symbol) < address (&msymbol[hi])
BetterThanBest(best, cand) ==
  best = NULL \/ SYMBOL_VALUE_ADDRESS(best) < SYMBOL_VALUE_ADDRESS(cand)

\* The loop over object_files from position k on, best_symbol so far.
RECURSIVE PcScan(_, _, _)
PcScan(k, pc, best_symbol) ==
  IF k > Len(object_files) THEN best_symbol
  ELSE LET objfile == object_files[k]
           hi == PcCandidate(msymbols[objfile], pc)
       IN  IF hi >= 0 /\ BetterThanBest(best_symbol, Ptr(objfile, hi))
           THEN PcScan(k + 1, pc, Ptr(objfile, hi))
           ELSE PcScan(k + 1, pc, best_symbol)

lookup_minimal_symbol_by_pc(pc) == PcScan(1, pc, NULL)

(***************************************************************************)
(* lookup_minimal_symbol, for sfile == NULL (with a NULL sfile the two     *)
(* SOFUN_ADDRESS_MAYBE_MISSING variants of the code are the same).  objf   *)
(* is an objfile id, or 0 for NULL.  The three results so far are kept in  *)
(* a record.                                                               *)
(***************************************************************************)
\* SYMBOL_MATCHES_NAME: the names are equal.
SYMBOL_MATCHES_NAME(p, name) == SYMBOL_NAME(p) = name

\* Mutant: a file-local symbol is kept only when none was found before.
Classify_FirstFile(acc, p) ==
  IF MSYMBOL_TYPE(p) \in FileTypes
  THEN IF acc.found_file_symbol = NULL
       THEN [acc EXCEPT !.found_file_symbol = p]
       ELSE acc
  ELSE IF MSYMBOL_TYPE(p) = "mst_solib_trampoline"
  THEN IF acc.trampoline_symbol = NULL
       THEN [acc EXCEPT !.trampoline_symbol = p]
       ELSE acc
  ELSE [acc EXCEPT !.found_symbol = p]

\* The switch on MSYMBOL_TYPE (msymbol) for a symbol whose name matches.
Classify(acc, p) ==
  IF MSYMBOL_TYPE(p) \in FileTypes
  THEN [acc EXCEPT !.found_file_symbol = p]
  ELSE IF MSYMBOL_TYPE(p) = "mst_solib_trampoline"
  THEN IF acc.trampoline_symbol = NULL
       THEN [acc EXCEPT !.trampoline_symbol = p]
       ELSE acc
  ELSE [acc EXCEPT !.found_symbol = p]

\* The inner loop over one objfile's table, from index i on.
RECURSIVE NameScanTable(_, _, _, _)
NameScanTable(objfile, i, name, acc) ==
  IF i < Len(msymbols[objfile]) /\ acc.found_symbol = NULL
  THEN NameScanTable(objfile, i + 1, name,
                     IF SYMBOL_MATCHES_NAME(Ptr(objfile, i), name)
                     THEN Classify(acc, Ptr(objfile, i))
                     ELSE acc)
  ELSE acc

\* The outer loop over object_files, from position k on.
RECURSIVE NameScan(_, _, _, _)
NameScan(k, name, objf, acc) ==
  IF k <= Len(object_files) /\ acc.found_symbol = NULL
  THEN NameScan(k + 1, name, objf,
                IF objf = 0 \/ objf = object_files[k]
                THEN NameScanTable(object_files[k], 0, name, acc)
                ELSE acc)
  ELSE acc

\* External symbols are best, file-local symbols next, trampolines last.
NameResult(acc) ==
  IF acc.found_symbol # NULL THEN acc.found_symbol
  ELSE IF acc.found_file_symbol # NULL THEN acc.found_file_symbol
  ELSE IF acc.trampoline_symbol # NULL THEN acc.trampoline_symbol
  ELSE NULL

lookup_minimal_symbol(name, objf) ==
  NameResult(NameScan(1, name, objf,
                      [found_symbol |-> NULL, found_file_symbol |-> NULL,
                       trampoline_symbol |-> NULL]))

(***************************************************************************)
(* lookup_solib_trampoline_symbol_by_pc and find_solib_trampoline_target   *)
(***************************************************************************)
lookup_solib_trampoline_symbol_by_pc(pc) ==
  LET msymbol == lookup_minimal_symbol_by_pc(pc)
  IN  IF msymbol # NULL /\ MSYMBOL_TYPE(msymbol) = "mst_solib_trampoline"
      THEN msymbol
      ELSE NULL

\* ALL_MSYMBOLS: every symbol of every objfile, objfiles in list order and
\* each table in index order; from position k of object_files on.
RECURSIVE ALL_MSYMBOLS(_)
ALL_MSYMBOLS(k) ==
  IF k > Len(object_files) THEN <<>>
  ELSE [i \in 1..Len(msymbols[object_files[k]]) |->
          Ptr(object_files[k], i - 1)]
       \o ALL_MSYMBOLS(k + 1)

\* Mutant: the test of the type is missing.
IsTargetOf_AnyType(msymbol, tsymbol) ==
  SYMBOL_NAME(msymbol) = SYMBOL_NAME(tsymbol)

\* The test in the body of the ALL_MSYMBOLS loop.
IsTargetOf(msymbol, tsymbol) ==
  /\ MSYMBOL_TYPE(msymbol) = "mst_text"
  /\ SYMBOL_NAME(msymbol) = SYMBOL_NAME(tsymbol)

RECURSIVE TargetScan(_, _, _)
TargetScan(all, j, tsymbol) ==
  IF j > Len(all) THEN 0
  ELSE IF IsTargetOf(all[j], tsymbol) THEN SYMBOL_VALUE_ADDRESS(all[j])
  ELSE TargetScan(all, j + 1, tsymbol)

find_solib_trampoline_target(pc) ==
  LET tsymbol == lookup_solib_trampoline_symbol_by_pc(pc)
  IN  IF tsymbol # NULL THEN TargetScan(ALL_MSYMBOLS(1), 1, tsymbol) ELSE 0

(***************************************************************************)
(* The lookups as calls.  A pc runs from 0 to one past the greatest        *)
(* address of any table.                                                   *)
(***************************************************************************)
Addresses ==
  UNION { { msymbols[o][i].address : i \in 1..Len(msymbols[o]) } :
          o \in Objfiles }

Pcs ==
  0 .. 1 + (IF Addresses = {} THEN 0
            ELSE CHOOSE a \in Addresses : \A b \in Addresses : b <= a)

LookupByPc ==
  /\ proc = "running"
  /\ \E pc \in Pcs :
       last' = [Call("by_pc") EXCEPT !.pc = pc,
                                     !.res = lookup_minimal_symbol_by_pc(pc)]
  /\ UNCHANGED <<object_files, msymbols, msym_bunch, msym_bunch_index,
                 msym_count, proc>>

LookupByName ==
  /\ proc = "running"
  /\ \E name \in {Str_a, Str_b}, objf \in {0} \cup Objfiles :
       last' = [Call("by_name") EXCEPT
                  !.name = name, !.objfile = objf,
                  !.res = lookup_minimal_symbol(name, objf)]
  /\ UNCHANGED <<object_files, msymbols, msym_bunch, msym_bunch_index,
                 msym_count, proc>>

FindTarget ==
  /\ proc = "running"
  /\ \E pc \in Pcs :
       last' = [Call("target") EXCEPT
                  !.pc = pc,
                  !.res = lookup_solib_trampoline_symbol_by_pc(pc),
                  !.target = find_solib_trampoline_target(pc)]
  /\ UNCHANGED <<object_files, msymbols, msym_bunch, msym_bunch_index,
                 msym_count, proc>>

(***************************************************************************)
(* The loader: any order of calls on the collection buffer and the         *)
(* objfile.  The statics start zeroed.                                     *)
(***************************************************************************)
Init ==
  /\ object_files = <<1>>
  /\ msymbols = [o \in {1} |-> NULL]
  /\ msym_bunch = NULL
  /\ msym_bunch_index = 0
  /\ msym_count = 0
  /\ proc = "running"
  /\ last = Call("start")

Record ==
  \E r \in AppendInputs, o \in Objfiles :
    prim_record_minimal_symbol_and_info(r[1], r[2], r[3], o)

Install == \E o \in Objfiles : install_minimal_symbols(o)

Sort == \E o \in Objfiles : msymbols_sort(o)

Next ==
  \/ init_minimal_symbol_collection
  \/ Record
  \/ Install
  \/ Sort
  \/ discard_minimal_symbols

Spec == Init /\ [][Next]_vars

(***************************************************************************)
(* The lookups over installed tables.  A table is drawn as install leaves  *)
(* one: sorted by ascending address, each language settled by the          *)
(* demangling pass.  The collection buffer is as                           *)
(* init_minimal_symbol_collection leaves it.                               *)
(***************************************************************************)
Installed(n, a, t) ==
  MkSym(n, a, t, IF cplus_demangle(n) # NULL THEN "language_cplus"
                 ELSE "language_unknown")

SortedOfLen(syms, k) == { tab \in [1..k -> syms] : IsSorted(tab) }

SortedTables(syms, n) == UNION { SortedOfLen(syms, k) : k \in 0..n }

\* The tables of two objfiles that hold at most MaxSyms symbols together.
TablePairs(syms) ==
  UNION { { [o \in {1, 2} |-> IF o = 1 THEN t1 ELSE t2] :
              t1 \in SortedOfLen(syms, k),
              t2 \in SortedTables(syms, MaxSyms - k) } :
          k \in 0..MaxSyms }

\* Symbols of the table drawn for the lookups by pc in one objfile.
PcSyms ==
  { Installed(Str_a, a, t) : a \in 1..MaxAddr, t \in {"mst_text", "mst_abs"} }

\* Symbols of the tables drawn for the lookups by pc over two objfiles.
ModSyms ==
  { Installed(Str_a, a, t) :
      a \in 1..MaxModAddr, t \in {"mst_text", "mst_abs"} }

\* Symbols of the tables drawn for the trampoline lookups.
TrampSyms ==
  { Installed(n, a, "mst_text") : n \in {Str_a, Str_b}, a \in 1..MaxModAddr }
  \cup { Installed(Str_a, a, "mst_solib_trampoline") : a \in 1..MaxModAddr }

\* Symbols of the tables drawn for the lookups by name, in which the
\* address plays no part.
NameSyms ==
  { Installed(Str_a, 1, t) :
      t \in {"mst_text", "mst_abs", "mst_file_text", "mst_file_data",
             "mst_solib_trampoline"} }
  \cup { Installed(Str_b, 1, "mst_text") }

InitBuffer ==
  /\ msym_bunch = NULL
  /\ msym_bunch_index = BUNCH_SIZE
  /\ msym_count = 0
  /\ proc = "running"
  /\ last = Call("start")

InitPc ==
  /\ object_files = <<1>>
  /\ msymbols \in [{1} -> SortedTables(PcSyms, MaxLen)]
  /\ InitBuffer

InitMods ==
  /\ object_files = <<1, 2>>
  /\ msymbols \in TablePairs(ModSyms)
  /\ InitBuffer

InitTramp ==
  /\ object_files = <<1, 2>>
  /\ msymbols \in TablePairs(TrampSyms)
  /\ InitBuffer

InitNames ==
  /\ object_files = <<1, 2>>
  /\ msymbols \in TablePairs(NameSyms)
  /\ InitBuffer

NextLookup ==
  \/ LookupByPc
  \/ LookupByName
  \/ FindTarget

SpecPc == InitPc /\ [][NextLookup]_vars

SpecMods == InitMods /\ [][NextLookup]_vars

SpecTramp == InitTramp /\ [][NextLookup]_vars

SpecNames == InitNames /\ [][NextLookup]_vars

(***************************************************************************)
(* The binary-search loop of lookup_minimal_symbol_by_pc, pass by pass,    *)
(* over the table of one objfile.  last.op is the position in the code:    *)
(* "search" at the test of the while loop, "searched" past the loop.       *)
(* last.lo and last.hi are lo and hi.  The type of a symbol plays no part  *)
(* in the loop.                                                            *)
(***************************************************************************)
LoopSyms == { Installed(Str_a, a, "mst_text") : a \in 1..MaxAddr }

InitLoop ==
  /\ object_files = <<1>>
  /\ msymbols \in [{1} -> SortedTables(LoopSyms, MaxLen)]
  /\ InitBuffer

\* lo = 0; hi = minimal_symbol_count - 1; for a table that is not NULL and
\* a pc at or above the first symbol's address.
BSearchEnter ==
  /\ last.op \in {"start", "searched"}
  /\ msymbols[1] # NULL
  /\ \E pc \in Pcs :
       /\ pc >= At(msymbols[1], 0).address
       /\ last' = [Call("search") EXCEPT !.pc = pc, !.lo = 0,
                                         !.hi = Len(msymbols[1]) - 1]
  /\ UNCHANGED <<object_files, msymbols, msym_bunch, msym_bunch_index,
                 msym_count, proc>>

\* The test of the while loop holds: one pass of its body.
BSearchPass ==
  /\ last.op = "search"
  /\ At(msymbols[1], last.hi).address > last.pc
  /\ LET s == BSearchStep(msymbols[1], last.pc, last.lo, last.hi)
     IN  last' = [last EXCEPT !.lo = s[1], !.hi = s[2]]
  /\ UNCHANGED <<object_files, msymbols, msym_bunch, msym_bunch_index,
                 msym_count, proc>>

\* The test of the while loop fails: the loop is left.
BSearchExit ==
  /\ last.op = "search"
  /\ ~(At(msymbols[1], last.hi).address > last.pc)
  /\ last' = [last EXCEPT !.op = "searched"]
  /\ UNCHANGED <<object_files, msymbols, msym_bunch, msym_bunch_index,
                 msym_count, proc>>

NextLoop ==
  \/ BSearchEnter
  \/ BSearchPass
  \/ BSearchExit

\* The loop runs on: a pass or the exit that can be taken is taken.
SpecLoop ==
  /\ InitLoop
  /\ [][NextLoop]_vars
  /\ WF_vars(BSearchPass)
  /\ WF_vars(BSearchExit)

(***************************************************************************)
(* Properties of the loader (specification Spec).                          *)
(***************************************************************************)
\* The calls return: the process neither crashed nor ran on corrupt memory.
Returned(op) == proc = "running" /\ last.op = op

\* Every written slot of the chain, current bunch first.  When an install
\* has returned without reading an unwritten slot, these are the records
\* its copy loop read, in the order it read them.
RECURSIVE ChainFrom(_)
ChainFrom(k) ==
  IF k > Len(msym_bunch) THEN <<>> ELSE msym_bunch[k] \o ChainFrom(k + 1)
Chain == ChainFrom(1)

SameAddressAndName(x, y) == x.address = y.address /\ x.name = y.name

\* A name without the leading '_' of objfile 1.
Stripped(name) ==
  IF name # <<>> /\ name[1] = "_" THEN SubSeq(name, 2, Len(name)) ELSE name

C2_NoDuplicates ==
  (Returned("install") /\ msym_count > 0) =>
    \A i, j \in 1..Len(msymbols[last.objfile]) :
      i # j => ~SameAddressAndName(msymbols[last.objfile][i],
                                   msymbols[last.objfile][j])

\* C2, amended: no two ADJACENT entries of a table that install has
\* produced have the same address and the same name.
C2_NoAdjacentDuplicates ==
  (Returned("install") /\ msym_count > 0) =>
    \A i \in 1..Len(msymbols[last.objfile]) - 1 :
      ~SameAddressAndName(msymbols[last.objfile][i],
                          msymbols[last.objfile][i + 1])

\* An install has read three records of one address, two of them of one
\* name, and has compacted one of the two out.
C2_Witness ==
  /\ Returned("install")
  /\ Len(Chain) = 3
  /\ \A i \in 1..3 : Chain[i].address = Chain[1].address
  /\ \E i, j \in 1..3 : i # j /\ SameAddressAndName(Chain[i], Chain[j])
  /\ last.old = <<>>
  /\ Len(msymbols[1]) = 2

\* An install into an empty table has returned, and its copy loop read
\* the records of a fresh collection, all of different addresses.
FreshDistinctLoad ==
  /\ Returned("install")
  /\ last.old = <<>>
  /\ Chain # <<>>
  /\ msym_count = Len(Chain)
  /\ \A i, j \in 1..Len(Chain) : i # j => Chain[i].address # Chain[j].address

\* The symbol p points to is the installed form of the recorded symbol r:
\* its address, its type, its name without the leading character.
IsInstalledFormOf(p, r) ==
  /\ p # NULL
  /\ Sym(p).address = r.address
  /\ Sym(p).type = r.type
  /\ Sym(p).name = Stripped(r.name)

\* C6 as stated: after a fresh load of records of distinct addresses into
\* an empty table, the lookup by pc at each record's address returns that
\* record.
C6_RoundTrip ==
  FreshDistinctLoad =>
    \A i \in 1..Len(Chain) :
      IsInstalledFormOf(lookup_minimal_symbol_by_pc(Chain[i].address), Chain[i])

\* C6, amended: the lookup by pc at a record's address returns that record
\* (its address and type, its name without the leading character) when the
\* record's type is not mst_abs; at the address of an mst_abs record it
\* returns a record of a lower address that is not mst_abs, or none.
C6_RoundTripButAbsolute ==
  FreshDistinctLoad =>
    \A i \in 1..Len(Chain) :
      LET p == lookup_minimal_symbol_by_pc(Chain[i].address)
      IN  IF Chain[i].type # "mst_abs"
          THEN IsInstalledFormOf(p, Chain[i])
          ELSE p = NULL \/ /\ Sym(p).type # "mst_abs"
                           /\ Sym(p).address < Chain[i].address

\* A fresh load of three records spanning two bunches, one of them
\* recorded with the leading character and one of them mst_abs.
C6_Witness ==
  /\ FreshDistinctLoad
  /\ Len(Chain) = 3
  /\ Len(msym_bunch) = 2
  /\ \E i \in 1..3 : Chain[i].name = Str_ua
  /\ \E i \in 1..3 : Chain[i].type = "mst_abs"

\* An install has returned whose copy loop read exactly two records, of
\* one address and name, one mst_unknown and one mst_text, into a table
\* that held nothing at that address.
UnknownTextPairLoad ==
  /\ Returned("install")
  /\ Len(Chain) = 2
  /\ SameAddressAndName(Chain[1], Chain[2])
  /\ {Chain[1].type, Chain[2].type} = {"mst_unknown", "mst_text"}
  /\ \A i \in 1..Len(last.old) : last.old[i].address # Chain[1].address

\* C7: after such an install the table holds exactly one record of that
\* address and name, and its type is mst_text.
C7_DuplicateMerged ==
  UnknownTextPairLoad =>
    LET tab == msymbols[last.objfile]
        same == { i \in 1..Len(tab) :
                    /\ tab[i].address = Chain[1].address
                    /\ tab[i].name = Stripped(Chain[1].name) }
    IN  /\ Cardinality(same) = 1
        /\ \A i \in same : tab[i].type = "mst_text"

\* Such an install, the mst_text record recorded first.
C7_Witness ==
  /\ UnknownTextPairLoad
  /\ Chain[2].type = "mst_text"
  /\ Len(msymbols[1]) = Len(last.old) + 1

\* C10: discard_minimal_symbols, called after init_minimal_symbol_collection
\* and any appends and installs, leaves no bunch and a count of zero: the
\* buffer is as init_minimal_symbol_collection leaves it.  (msym_bunch_index
\* is 0 only as long as init_minimal_symbol_collection was never called.)
C10_DiscardResets ==
  (Returned("discard") /\ msym_bunch_index # 0) =>
    /\ msym_bunch = NULL
    /\ msym_count = 0
    /\ msym_bunch_index = BUNCH_SIZE

\* C11: demangling is never retried.  Once the demangler has failed for a
\* symbol of the table (its record is tagged language_unknown), an install
\* that returns has not handed a symbol of that address and name to the
\* demangler, also when a record of that address and name was appended
\* again and compaction merged the two.
C11_NeverRetried ==
  Returned("install") =>
    \A i \in 1..Len(last.old) :
      last.old[i].language = "language_unknown" =>
        <<last.old[i].address, last.old[i].name>> \notin last.demangled

(***************************************************************************)
(* Properties of the lookups (SpecPc, SpecMods, SpecNames, SpecTramp).     *)
(***************************************************************************)
\* Places in scan order: <<k, i>> is index i of the table of the k-th
\* objfile of the registry.
Places ==
  UNION { { <<k, i>> : i \in 0..Len(msymbols[object_files[k]]) - 1 } :
          k \in 1..Len(object_files) }
PlaceSym(x) == At(msymbols[object_files[x[1]]], x[2])
PlacePtr(x) == Ptr(object_files[x[1]], x[2])
Before(x, y) == x[1] < y[1] \/ (x[1] = y[1] /\ x[2] < y[2])
FirstOf(S) == CHOOSE x \in S : \A y \in S : x = y \/ Before(x, y)
LastOf(S) == CHOOSE x \in S : \A y \in S : x = y \/ Before(y, x)

\* C3: over one objfile whose table is sorted and holds no mst_abs symbol,
\* the lookup by pc returns none exactly when every address of the table
\* exceeds pc, and otherwise a symbol whose address is the greatest address
\* of the table that is <= pc.
C3_GreatestAddressAtOrBelow ==
  LET tab == msymbols[1]
      all == { tab[i].address : i \in 1..Len(tab) }
      below == { a \in all : a <= last.pc }
  IN  (/\ last.op = "by_pc"
       /\ tab # <<>>
       /\ \A i \in 1..Len(tab) : tab[i].type # "mst_abs") =>
        /\ last.res = NULL <=> below = {}
        /\ last.res # NULL =>
             /\ Sym(last.res).address \in below
             /\ \A a \in below : a <= Sym(last.res).address

\* A lookup in a table of three or more symbols without mst_abs, some
\* above pc, the answer below pc and at an address the table holds twice.
C3_Witness ==
  LET tab == msymbols[1]
  IN  /\ last.op = "by_pc"
      /\ Len(tab) >= 3
      /\ \A i \in 1..Len(tab) : tab[i].type # "mst_abs"
      /\ tab[Len(tab)].address > last.pc
      /\ last.res # NULL
      /\ Sym(last.res).address < last.pc
      /\ Cardinality({ i \in 1..Len(tab) :
                         tab[i].address = Sym(last.res).address }) = 2

\* C12: over one objfile whose table is sorted, equal addresses in any
\* order, the lookup by pc returns a symbol whose address is the greatest
\* address <= pc among the symbols of the table that are not mst_abs, and
\* returns none only if no such symbol has an address <= pc.
C12_GreatestNonAbsolute ==
  LET tab == msymbols[1]
      below == { tab[i].address :
                   i \in { i \in 1..Len(tab) :
                             /\ tab[i].type # "mst_abs"
                             /\ tab[i].address <= last.pc } }
  IN  (last.op = "by_pc" /\ below # {}) =>
        /\ last.res # NULL
        /\ Sym(last.res).address \in below
        /\ \A a \in below : a <= Sym(last.res).address

\* C13: the binary-search loop terminates for every non-empty sorted table
\* and every pc at or above the first address; throughout the loop
\* 0 <= lo <= hi <= count - 1 and address(lo) <= pc, and on exit
\* address(hi) <= pc.
LoopInvariant ==
  LET tab == msymbols[1]
  IN  /\ last.op \in {"search", "searched"} =>
           /\ 0 <= last.lo
           /\ last.lo <= last.hi
           /\ last.hi <= Len(tab) - 1
           /\ At(tab, last.lo).address <= last.pc
      /\ last.op = "searched" => At(tab, last.hi).address <= last.pc

C13_LoopTerminates ==
  /\ []LoopInvariant
  /\ (last.op = "search") ~> (last.op = "searched")

\* The loop has moved lo up and hi down and goes on: the table still holds
\* an address above pc at hi.
C13_Witness ==
  /\ last.op = "search"
  /\ last.lo > 0
  /\ last.hi < Len(msymbols[1]) - 1
  /\ At(msymbols[1], last.hi).address > last.pc

\* The candidate of the k-th objfile for pc, and what the reduction over
\* the objfiles is to return: the candidate of the greatest address, of
\* the earliest objfile among those of that address.
CandidateOf(k, pc) == PcCandidate(msymbols[object_files[k]], pc)
CandidateAddress(k, pc) ==
  At(msymbols[object_files[k]], CandidateOf(k, pc)).address
BestCandidate(pc) ==
  LET C == { k \in 1..Len(object_files) : CandidateOf(k, pc) >= 0 }
  IN  IF C = {} THEN NULL
      ELSE LET k == CHOOSE k \in C :
                      \A j \in C :
                        \/ CandidateAddress(j, pc) < CandidateAddress(k, pc)
                        \/ /\ CandidateAddress(j, pc) = CandidateAddress(k, pc)
                           /\ k <= j
           IN  Ptr(object_files[k], CandidateOf(k, pc))

\* C4: over several objfiles the lookup by pc returns the candidate of the
\* greatest address, the first objfile's on a tie, and none only when no
\* objfile has a candidate.
C4_BestOfAllObjfiles ==
  last.op = "by_pc" => last.res = BestCandidate(last.pc)

\* Both objfiles have a candidate of the same address, and the first
\* objfile's is returned.
C4_Witness ==
  /\ last.op = "by_pc"
  /\ CandidateOf(1, last.pc) >= 0
  /\ CandidateOf(2, last.pc) >= 0
  /\ CandidateAddress(1, last.pc) = CandidateAddress(2, last.pc)
  /\ last.res = Ptr(1, CandidateOf(1, last.pc))

\* The places the lookup by name scans, and those whose name matches.
Matching(name, objf) ==
  { x \in Places :
      /\ objf = 0 \/ object_files[x[1]] = objf
      /\ PlaceSym(x).name = name }

\* C5: the lookup by name returns the first match that is neither
\* file-local nor a trampoline; failing that the last file-local match;
\* failing that the first trampoline match; failing that none.
C5_NamePrecedence ==
  last.op = "by_name" =>
    LET M == Matching(last.name, last.objfile)
        F == { x \in M : PlaceSym(x).type \in FileTypes }
        T == { x \in M : PlaceSym(x).type = "mst_solib_trampoline" }
        G == M \ (F \cup T)
    IN  last.res = IF G # {} THEN PlacePtr(FirstOf(G))
                   ELSE IF F # {} THEN PlacePtr(LastOf(F))
                   ELSE IF T # {} THEN PlacePtr(FirstOf(T))
                   ELSE NULL

\* The first objfile holds a file-local "a", the second a global "a" after
\* a trampoline "a", and the lookup over all objfiles returns the global.
C5_Witness ==
  /\ last.op = "by_name"
  /\ last.objfile = 0
  /\ Len(msymbols[1]) = 1
  /\ msymbols[1][1].type = "mst_file_text"
  /\ Len(msymbols[2]) = 2
  /\ msymbols[2][1].type = "mst_solib_trampoline"
  /\ msymbols[2][2].type = "mst_text"
  /\ \A x \in Places : PlaceSym(x).name = last.name
  /\ last.res = Ptr(2, 1)

\* The index the binary search ends on in objfile o's table, for a pc at
\* or above the table's first address.
SearchEnd(o, pc) == BSearch(msymbols[o], pc, 0, Len(msymbols[o]) - 1)
Searched(o, pc) ==
  msymbols[o] # <<>> /\ pc >= msymbols[o][1].address

\* C8: the lookup by pc never returns an mst_abs symbol; what it returns is
\* at or below the index the binary search ended on in its table, with only
\* mst_abs symbols between; and it returns none when in every table the
\* walk back runs off the front.
C8_AbsoluteSkipped ==
  last.op = "by_pc" =>
    /\ last.res # NULL =>
         LET o == last.res[1]
             i == last.res[2]
         IN  /\ Sym(last.res).type # "mst_abs"
             /\ Searched(o, last.pc)
             /\ i <= SearchEnd(o, last.pc)
             /\ \A j \in i + 1 .. SearchEnd(o, last.pc) :
                  At(msymbols[o], j).type = "mst_abs"
    /\ (\A o \in Objfiles :
          Searched(o, last.pc) =>
            \A j \in 0..SearchEnd(o, last.pc) :
              At(msymbols[o], j).type = "mst_abs")
       => last.res = NULL

\* The binary search ended on an mst_abs symbol of the first objfile and
\* the symbol below it is returned, while in the second objfile the walk
\* back ran off the front.
C8_Witness ==
  /\ last.op = "by_pc"
  /\ last.res = Ptr(1, 0)
  /\ SearchEnd(1, last.pc) = 1
  /\ msymbols[1][2].type = "mst_abs"
  /\ Searched(2, last.pc)
  /\ \A j \in 1..Len(msymbols[2]) : msymbols[2][j].type = "mst_abs"

\* C9: find_solib_trampoline_target returns the address of the first
\* mst_text symbol, in scan order over all objfiles, whose name is that of
\* the mst_solib_trampoline symbol found at pc; it returns 0 when the
\* symbol at pc is no trampoline or no such mst_text symbol exists.
C9_TrampolineTarget ==
  last.op = "target" =>
    LET t == lookup_minimal_symbol_by_pc(last.pc)
        targets == { x \in Places :
                       /\ PlaceSym(x).type = "mst_text"
                       /\ PlaceSym(x).name = Sym(t).name }
    IN  last.target =
          IF t # NULL /\ Sym(t).type = "mst_solib_trampoline" /\ targets # {}
          THEN PlaceSym(FirstOf(targets)).address
          ELSE 0

\* A trampoline of the first objfile resolved to the mst_text symbol of
\* its name in the second objfile, which also holds an mst_text symbol of
\* another name before it.
C9_Witness ==
  /\ last.op = "target"
  /\ last.res # NULL
  /\ last.res[1] = 1
  /\ Len(msymbols[2]) = 2
  /\ msymbols[2][1].type = "mst_text"
  /\ msymbols[2][1].name # Sym(last.res).name
  /\ msymbols[2][2].type = "mst_text"
  /\ msymbols[2][2].name = Sym(last.res).name
  /\ \A i \in 1..Len(msymbols[1]) : msymbols[1][i].type # "mst_text"
  /\ last.target = msymbols[2][2].address

====
